---- MODULE Spec2Model ----
(***************************************************************************)
(* Model of the naked-singles Sudoku solver of src/src/main.rs.            *)
(*                                                                         *)
(* Text is a sequence of characters, each character a one-token string.    *)
(* A cell is Value(v) or Possibly(values), values being the Vec<u8> of     *)
(* the source (an ordered list).  The board is a function over 0..80.      *)
(***************************************************************************)
EXTENDS Integers, Sequences, FiniteSets, TLC

VARIABLES input, pc, board, step_count, group, notice

vars == <<input, pc, board, step_count, group, notice>>

----------------------------------------------------------------------------
(* Characters and strings                                                  *)

\* A character that is not ASCII: two bytes in UTF-8.
TwoByteChar == "U+00E9"

\* str::len counts bytes, not characters.
len_utf8(c) == IF c = TwoByteChar THEN 2 ELSE 1

\* str::len: the sum of the characters' byte lengths, each 1 or 2.
len(s) == Len(s) + Cardinality({k \in 1..Len(s) : len_utf8(s[k]) = 2})

\* char::is_whitespace, as used by str::trim.
is_whitespace(c) == c \in {" ", "\t", "\n", "\r"}

RECURSIVE trim_start(_)
trim_start(s) ==
  IF s # <<>> /\ is_whitespace(Head(s)) THEN trim_start(Tail(s)) ELSE s

RECURSIVE trim_end(_)
trim_end(s) ==
  IF s # <<>> /\ is_whitespace(s[Len(s)])
  THEN trim_end(SubSeq(s, 1, Len(s) - 1)) ELSE s

\* trim that only removes the whitespace at the end.
trim_only_end(s) == trim_end(s)

trim(s) == trim_end(trim_start(s))

\* One line of str::lines: the "\n" terminator is already removed; a "\r"
\* right before it is removed too.
strip_cr(line) ==
  IF line # <<>> /\ line[Len(line)] = "\r"
  THEN SubSeq(line, 1, Len(line) - 1) ELSE line

\* The position of the first "\n" of s at or after k, Len(s) + 1 if none.
next_newline(s, k) ==
  IF \E j \in k..Len(s) : s[j] = "\n"
  THEN CHOOSE j \in k..Len(s) :
         /\ s[j] = "\n"
         /\ \A i \in k..(j - 1) : s[i] # "\n"
  ELSE Len(s) + 1

\* str::lines followed by map(trim) and collect::<String>(): the trimmed
\* lines of s from position k on, concatenated.
RECURSIVE lines_trim_collect(_, _)
lines_trim_collect(s, k) ==
  IF k > Len(s) THEN <<>>
  ELSE LET e == next_newline(s, k)
           line == SubSeq(s, k, e - 1)
       IN trim(IF e <= Len(s) THEN strip_cr(line) ELSE line)
            \o lines_trim_collect(s, e + 1)

DigitChars == <<"1", "2", "3", "4", "5", "6", "7", "8", "9">>

\* The pattern '1'..='9'.
is_clue_char(c) == \E d \in 1..9 : DigitChars[d] = c

\* c.to_string().parse::<u8>() on a character of '1'..='9'.
parse(c) == CHOOSE d \in 1..9 : DigitChars[d] = c

----------------------------------------------------------------------------
(* Cells                                                                   *)

Value(v) == [tag |-> "Value", value |-> v]
Possibly(values) == [tag |-> "Possibly", values |-> values]

cell_finished(cell) == cell.tag = "Value"

\* SudokuCell::all
all == [k \in 1..9 |-> k]

\* position defaulting to the first element when there is none.
position_or_first(values, value) ==
  IF \E k \in 1..Len(values) : values[k] = value
  THEN CHOOSE k \in 1..Len(values) :
         /\ values[k] = value
         /\ \A j \in 1..(k - 1) : values[j] # value
  ELSE IF values = <<>> THEN 0 ELSE 1

\* values.iter().position(|&x| x == value): 0 when there is none.
position(values, value) ==
  IF \E k \in 1..Len(values) : values[k] = value
  THEN CHOOSE k \in 1..Len(values) :
         /\ values[k] = value
         /\ \A j \in 1..(k - 1) : values[j] # value
  ELSE 0

\* remove with the position defaulting to the last one: an absent value
\* removes the last element.
remove_first_or_last(values, value) ==
  LET p == IF position(values, value) = 0 THEN Len(values)
           ELSE position(values, value)
  IN SubSeq(values, 1, p - 1) \o SubSeq(values, p + 1, Len(values))

\* values.remove(index) at the first position of value, if any.
remove_first(values, value) ==
  LET p == position(values, value)
  IN IF p = 0 THEN values
     ELSE SubSeq(values, 1, p - 1) \o SubSeq(values, p + 1, Len(values))

\* The assert!(!values.is_empty()) of eliminate fails.
eliminate_panics(cell, value) ==
  /\ cell.tag = "Possibly"
  /\ remove_first(cell.values, value) = <<>>

\* eliminate promoting to the length of the list instead of its element.
eliminate_promote_len(cell, value) ==
  IF cell.tag = "Possibly"
  THEN LET values == remove_first(cell.values, value)
       IN IF Len(values) = 1 THEN Value(Len(values)) ELSE Possibly(values)
  ELSE cell

\* eliminate without the if-let guard: a Value cell is treated as the
\* one-element list of its digit.
eliminate_unguarded(cell, value) ==
  LET list == IF cell.tag = "Possibly" THEN cell.values ELSE <<cell.value>>
      values == remove_first(list, value)
  IN IF Len(values) = 1 THEN Value(values[1]) ELSE Possibly(values)

\* eliminate without the promotion of a one-element list.
eliminate_no_promotion(cell, value) ==
  IF cell.tag = "Possibly"
  THEN Possibly(remove_first(cell.values, value))
  ELSE cell

\* eliminate promoting one element too early: a list of two is promoted to
\* its first digit.
eliminate_promote_early(cell, value) ==
  IF cell.tag = "Possibly"
  THEN LET values == remove_first(cell.values, value)
       IN IF Len(values) <= 2 THEN Value(values[1]) ELSE Possibly(values)
  ELSE cell

\* SudokuCell::eliminate, when the assertion holds.
eliminate(cell, value) ==
  IF cell.tag = "Possibly"
  THEN LET values == remove_first(cell.values, value)
       IN IF Len(values) = 1 THEN Value(values[1]) ELSE Possibly(values)
  ELSE cell

----------------------------------------------------------------------------
(* Board                                                                   *)

Cells == 81

Indices == 0..(Cells - 1)

\* No Sudoku value exists before try_from returns Ok.
NoBoard == <<>>

\* Sudoku::new
new == [idx \in Indices |-> Possibly(all)]

\* try_from with the pattern '0'..='9': the placeholder "0" becomes the
\* clue 0.
try_from_zero_clue(text) ==
  LET value == lines_trim_collect(text, 1)
  IN IF len(value) # Cells THEN [ok |-> FALSE, board |-> NoBoard]
     ELSE [ok |-> TRUE,
           board |-> [idx \in Indices |->
                        IF idx + 1 <= Len(value) /\ value[idx + 1] = "0"
                        THEN Value(0)
                        ELSE IF idx + 1 <= Len(value) /\ is_clue_char(value[idx + 1])
                        THEN Value(parse(value[idx + 1]))
                        ELSE new[idx]]]

\* Sudoku::try_from: [ok |-> FALSE] for Err(()).
try_from(text) ==
  LET value == lines_trim_collect(text, 1)
  IN IF len(value) # Cells THEN [ok |-> FALSE, board |-> NoBoard]
     ELSE [ok |-> TRUE,
           board |-> [idx \in Indices |->
                        IF idx + 1 <= Len(value) /\ is_clue_char(value[idx + 1])
                        THEN Value(parse(value[idx + 1]))
                        ELSE new[idx]]]

\* Sudoku::finished
finished(b) == \A idx \in DOMAIN b : cell_finished(b[idx])

\* Sudoku::index
index(row, column) == row * 9 + column

\* Sudoku::row_indices
row_indices(row) == [k \in 1..9 |-> index(row, k - 1)]

\* Sudoku::column_indices
column_indices(column) == [k \in 1..9 |-> index(k - 1, column)]

\* box_indices with base_column taken modulo 3 like base_row: only the three
\* diagonal boxes are ever enumerated.
box_indices_diagonal(box_index) ==
  LET base_row == box_index % 3
      base_column == box_index % 3
  IN [k \in 1..9 |->
        index(base_row * 3 + ((k - 1) \div 3), base_column * 3 + ((k - 1) % 3))]

\* box_indices without the factor 3 on the base: the blocks start at rows
\* and columns 0, 1, 2 and overlap.
box_indices_unscaled(box_index) ==
  LET base_row == box_index % 3
      base_column == box_index \div 3
  IN [k \in 1..9 |->
        index(base_row + ((k - 1) \div 3), base_column + ((k - 1) % 3))]

\* Sudoku::box_indices
box_indices(box_index) ==
  LET base_row == box_index % 3
      base_column == box_index \div 3
  IN [k \in 1..9 |->
        index(base_row * 3 + ((k - 1) \div 3), base_column * 3 + ((k - 1) % 3))]

\* The snapshot of solve_constraint: the digits of the Value cells of the
\* group, in group order.
RECURSIVE group_values(_, _, _)
group_values(b, indices, k) ==
  IF k > Len(indices) THEN <<>>
  ELSE IF cell_finished(b[indices[k]])
       THEN <<b[indices[k]].value>> \o group_values(b, indices, k + 1)
       ELSE group_values(b, indices, k + 1)

\* The inner loop of solve_constraint: eliminate(value) on the cells of the
\* group from cell number k on.  The result is the board and whether an
\* eliminate panicked (the loop stops there, the emptied list in place).
RECURSIVE eliminate_group(_, _, _, _)
eliminate_group(b, indices, value, k) ==
  IF k > Len(indices) THEN [board |-> b, panicked |-> FALSE]
  ELSE IF eliminate_panics(b[indices[k]], value)
       THEN [board |-> [b EXCEPT ![indices[k]] = Possibly(<<>>)],
             panicked |-> TRUE]
       ELSE eliminate_group(
              [b EXCEPT ![indices[k]] = eliminate(b[indices[k]], value)],
              indices, value, k + 1)

\* The outer loop of solve_constraint, from value number vi on.
RECURSIVE constraint_loop(_, _, _, _)
constraint_loop(b, indices, values, vi) ==
  IF vi > Len(values) THEN [board |-> b, panicked |-> FALSE]
  ELSE LET r == eliminate_group(b, indices, values[vi], 1)
       IN IF r.panicked THEN r
          ELSE constraint_loop(r.board, indices, values, vi + 1)

\* solve_constraint repeated once with a fresh snapshot: the digits fixed
\* by the first pass are eliminated in the same call.
solve_constraint_twice(b, indices) ==
  LET first == constraint_loop(b, indices, group_values(b, indices, 1), 1)
  IN IF first.panicked THEN first
     ELSE constraint_loop(first.board, indices,
                          group_values(first.board, indices, 1), 1)

\* Sudoku::solve_constraint
solve_constraint(b, indices) ==
  constraint_loop(b, indices, group_values(b, indices, 1), 1)

\* The round limit one round later.
limit_exceeded_late(count) == count > 82

\* The round limit after six rounds.
limit_exceeded_early(count) == count > 5

\* The round limit after two rounds.
limit_exceeded_after_two(count) == count > 1

\* The round limit of solve: the loop breaks once step_count > 81.
limit_exceeded(count) == count > 81

\* The loop of solve_rows from the given row on; r is the board and
\* whether an eliminate has panicked.
RECURSIVE rows_loop(_, _)
rows_loop(r, row) ==
  IF r.panicked \/ row > 8 THEN r
  ELSE rows_loop(solve_constraint(r.board, row_indices(row)), row + 1)

\* Sudoku::solve_rows
solve_rows(b) == rows_loop([board |-> b, panicked |-> FALSE], 0)

RECURSIVE columns_loop(_, _)
columns_loop(r, column) ==
  IF r.panicked \/ column > 8 THEN r
  ELSE columns_loop(solve_constraint(r.board, column_indices(column)), column + 1)

\* Sudoku::solve_columns
solve_columns(b) == columns_loop([board |-> b, panicked |-> FALSE], 0)

RECURSIVE boxes_loop(_, _)
boxes_loop(r, box_index) ==
  IF r.panicked \/ box_index > 8 THEN r
  ELSE boxes_loop(solve_constraint(r.board, box_indices(box_index)), box_index + 1)

\* Sudoku::solve_boxes
solve_boxes(b) == boxes_loop([board |-> b, panicked |-> FALSE], 0)

\* Sudoku::step
step(b) ==
  LET rows == solve_rows(b)
  IN IF rows.panicked THEN rows
     ELSE LET columns == solve_columns(rows.board)
          IN IF columns.panicked THEN columns
             ELSE solve_boxes(columns.board)

\* x.get().unwrap_or(&0) written with "{value}": the digit of a Value cell,
\* "0" for a Possibly cell.
display_cell(cell) ==
  LET value == IF cell.tag = "Value" THEN cell.value ELSE 0
  IN IF value = 0 THEN "0" ELSE DigitChars[value]

\* Display with a blank for a cell that has no value.
fmt_blank_from(b, row) ==
  [k \in 1..9 |->
     IF b[row * 9 + k - 1].tag = "Value" THEN display_cell(b[row * 9 + k - 1])
     ELSE " "]

\* Display::fmt, the cells idx = 9 * row .. 9 * row + 8 of the loop: a line
\* break before the first of them unless idx = 0.
fmt_row(b, row) ==
  (IF row # 0 THEN <<"\n">> ELSE <<>>)
    \o [k \in 1..9 |-> display_cell(b[row * 9 + k - 1])]

\* Display::fmt with a blank for a cell that has no value.
fmt_blank(b) ==
  LET line(row) == (IF row # 0 THEN <<"\n">> ELSE <<>>) \o fmt_blank_from(b, row)
  IN line(0) \o line(1) \o line(2) \o line(3) \o line(4)
       \o line(5) \o line(6) \o line(7) \o line(8)

\* Display::fmt
fmt(b) ==
  fmt_row(b, 0) \o fmt_row(b, 1) \o fmt_row(b, 2) \o fmt_row(b, 3)
    \o fmt_row(b, 4) \o fmt_row(b, 5) \o fmt_row(b, 6) \o fmt_row(b, 7)
    \o fmt_row(b, 8)

----------------------------------------------------------------------------
(* Inputs                                                                  *)

\* The character written for a digit, 0 being the placeholder.
Char(d) == IF d = 0 THEN "0" ELSE DigitChars[d]

Flat(digits) == [k \in 1..Len(digits) |-> Char(digits[k])]

\* The layout of the BOARD constant: a line break, then nine lines of nine
\* characters, each ended by a line break.
Framed(digits) ==
  [k \in 1..(Len(digits) + (Len(digits) \div 9) + 1) |->
     IF (k - 1) % 10 = 0 THEN "\n"
     ELSE Char(digits[k - 1 - ((k - 1) \div 10)])]

\* The digits of BOARD, row-major.
BoardDigits ==
  <<0, 0, 3, 0, 2, 0, 6, 0, 0,
     9, 0, 0, 3, 0, 5, 0, 0, 1,
     0, 0, 1, 8, 0, 6, 4, 0, 0,
     0, 0, 8, 1, 0, 2, 9, 0, 0,
     7, 0, 0, 0, 0, 0, 0, 0, 8,
     0, 0, 6, 7, 0, 8, 2, 0, 0,
     0, 0, 2, 6, 0, 9, 5, 0, 0,
     8, 0, 0, 2, 0, 3, 0, 0, 9,
     0, 0, 5, 0, 1, 0, 3, 0, 0>>

\* The BOARD constant.
BOARD == Framed(BoardDigits)

\* The solved grid the end-to-end scenario expects.
SolvedDigits ==
  <<4, 8, 3, 9, 2, 1, 6, 5, 7,
     9, 6, 7, 3, 4, 5, 8, 2, 1,
     2, 5, 1, 8, 7, 6, 4, 9, 3,
     5, 4, 8, 1, 3, 2, 9, 7, 6,
     7, 2, 9, 5, 6, 4, 1, 3, 8,
     1, 3, 6, 7, 9, 8, 2, 4, 5,
     3, 7, 2, 6, 8, 9, 5, 1, 4,
     8, 1, 4, 2, 5, 3, 7, 6, 9,
     6, 9, 5, 4, 1, 7, 3, 8, 2>>

EmptyDigits == [k \in 1..Cells |-> 0]

\* Row 0 holds the clues 1..n, everything else is a placeholder.
RowDigits(n) == [k \in 1..Cells |-> IF k <= n THEN k ELSE 0]

\* The solved grid with cells (0,0) and (3,1) blanked and the clue at (0,1)
\* changed from 8 to 4: no digit is repeated among the clues of a group, yet
\* no grid completes them.
TwistedDigits ==
  [SolvedDigits EXCEPT ![index(0, 0) + 1] = 0,
                       ![index(0, 1) + 1] = 4,
                       ![index(3, 1) + 1] = 0]

\* The puzzles that further clues are written over.
BaseDigits == {RowDigits(7), RowDigits(8)}

\* Further clues written over a base puzzle: at most MaxClues of them, at
\* the cells ClueCells, with the digits ClueDigits.
MaxClues == 2

ClueCells == {index(4, 7), index(7, 8), index(4, 8)}

ClueDigits == {8, 9}

Overlays ==
  {f \in [ClueCells -> {0} \cup ClueDigits] :
     Cardinality({c \in ClueCells : f[c] # 0}) <= MaxClues}

Overlay(digits, f) ==
  [k \in 1..Len(digits) |->
     IF (k - 1) \in ClueCells /\ f[k - 1] # 0 THEN f[k - 1] ELSE digits[k]]

\* The solved grid without the cells (0,1), (0,6), (1,1), (1,6), which hold
\* 8, 6, 6, 8: the grid with these four exchanged completes the clues too.
RectangleDigits ==
  [SolvedDigits EXCEPT ![index(0, 1) + 1] = 0,
                       ![index(0, 6) + 1] = 0,
                       ![index(1, 1) + 1] = 0,
                       ![index(1, 6) + 1] = 0]

Puzzles ==
  {BoardDigits, EmptyDigits, TwistedDigits, RectangleDigits}
    \cup {Overlay(digits, f) : digits \in BaseDigits, f \in Overlays}

\* text with the character at position k replaced by c
Replace(text, k, c) == [text EXCEPT ![k] = c]

\* text with the character c inserted before position k
Insert(text, k, c) == SubSeq(text, 1, k - 1) \o <<c>> \o SubSeq(text, k, Len(text))

\* text without the character at position k
Delete(text, k) == SubSeq(text, 1, k - 1) \o SubSeq(text, k + 1, Len(text))

LayoutChars == {" ", "\t", "\r", "\n", ".", "5", TwoByteChar}

\* Positions of a text where the layouts are varied: the first two
\* characters of row 0, the end of row 0 and the last character of row 8.
LayoutPositions(text) ==
  IF text[1] = "\n" THEN {2, 3, 11, Len(text) - 1} ELSE {1, 2, 9, Len(text)}

Layouts(text) ==
  {text}
    \cup {Replace(text, k, c) : k \in LayoutPositions(text), c \in LayoutChars}
    \cup {Insert(text, k, c) : k \in LayoutPositions(text), c \in LayoutChars}
    \cup {Delete(text, k) : k \in LayoutPositions(text)}
    \cup {Replace(Delete(text, j), k, c) :
            j \in {3}, k \in LayoutPositions(Delete(text, 3)), c \in LayoutChars}

Inputs ==
  {Framed(digits) : digits \in Puzzles}
    \cup Layouts(BOARD) \cup Layouts(Flat(BoardDigits))

----------------------------------------------------------------------------
(* The program: main calls try_from, unwraps, and calls solve.             *)

Init ==
  /\ input \in Inputs
  /\ pc = "try_from"
  /\ board = NoBoard
  /\ step_count = 0
  /\ group = 0
  /\ notice = FALSE

\* main: Sudoku::try_from(BOARD.to_string()).unwrap()
TryFrom ==
  /\ pc = "try_from"
  /\ LET r == try_from(input)
     IN /\ board' = r.board
        /\ pc' = IF r.ok THEN "solve" ELSE "unwrap_panic"
  /\ UNCHANGED <<input, step_count, group, notice>>

\* solve: the loop condition while !self.finished()
SolveWhile ==
  /\ pc = "solve"
  /\ pc' = IF finished(board) THEN "done" ELSE "rows"
  /\ UNCHANGED <<input, board, step_count, group, notice>>

\* The loop over the groups with the range 0..8 instead of 0..9: control
\* moves on after the eighth call.
ConstraintCall_eight(here, indices, next) ==
  /\ pc = here
  /\ LET r == solve_constraint(board, indices)
     IN /\ board' = r.board
        /\ IF r.panicked THEN /\ pc' = "panic"
                              /\ group' = group
           ELSE IF group = 7 THEN /\ pc' = next
                                  /\ group' = 0
           ELSE /\ pc' = here
                /\ group' = group + 1
  /\ UNCHANGED <<input, step_count, notice>>

\* One solve_constraint call of the loop named by here; after the ninth,
\* control moves to next.
ConstraintCall(here, indices, next) ==
  /\ pc = here
  /\ LET r == solve_constraint(board, indices)
     IN /\ board' = r.board
        /\ IF r.panicked THEN /\ pc' = "panic"
                              /\ group' = group
           ELSE IF group = 8 THEN /\ pc' = next
                                  /\ group' = 0
           ELSE /\ pc' = here
                /\ group' = group + 1
  /\ UNCHANGED <<input, step_count, notice>>

\* solve_rows: one iteration
SolveRows == ConstraintCall("rows", row_indices(group), "columns")

\* solve_columns: one iteration
SolveColumns == ConstraintCall("columns", column_indices(group), "boxes")

\* solve_boxes: one iteration
SolveBoxes == ConstraintCall("boxes", box_indices(group), "count")

\* solve: step_count += 1 and the round limit
StepCount ==
  /\ pc = "count"
  /\ step_count' = step_count + 1
  /\ IF limit_exceeded(step_count + 1)
     THEN /\ notice' = TRUE
          /\ pc' = "done"
     ELSE /\ notice' = notice
          /\ pc' = "solve"
  /\ UNCHANGED <<input, board, group>>

Next ==
  \/ TryFrom
  \/ SolveWhile
  \/ SolveRows
  \/ SolveColumns
  \/ SolveBoxes
  \/ StepCount

Spec == Init /\ [][Next]_vars

----------------------------------------------------------------------------
----------------------------------------------------------------------------
(* Vocabulary of the properties                                            *)

\* The digits a cell may still take: a Value(v) cell counts as {v}.
Possible(cell) ==
  IF cell.tag = "Value" THEN {cell.value}
  ELSE {cell.values[k] : k \in 1..Len(cell.values)}

\* The 27 groups: 9 rows, 9 columns, 9 boxes.
Groups ==
  {row_indices(g) : g \in 0..8}
    \cup {column_indices(g) : g \in 0..8}
    \cup {box_indices(g) : g \in 0..8}

GroupFixed(b, indices) == \A k \in 1..9 : b[indices[k]].tag = "Value"

GroupDigits(b, indices) ==
  {b[indices[k]].value : k \in {j \in 1..9 : b[indices[j]].tag = "Value"}}

\* Two different cells of one group are Value cells with the same digit.
Repeats(b, indices) ==
  \E j, k \in 1..9 :
    /\ j < k
    /\ b[indices[j]].tag = "Value"
    /\ b[indices[k]].tag = "Value"
    /\ b[indices[j]].value = b[indices[k]].value

\* The character of the input that cell idx was built from, for an input in
\* the BOARD layout (a line break before each row of nine).
ClueChar(idx) == input[idx + 2 + (idx \div 9)]

\* The input has the layout of BOARD: a line break, then nine lines of nine
\* characters that are digits or the placeholder "0".
InBoardLayout ==
  /\ Len(input) = 91
  /\ \A k \in 1..91 :
       IF (k - 1) % 10 = 0 THEN input[k] = "\n"
       ELSE input[k] = "0" \/ is_clue_char(input[k])

\* The group that the next solve_constraint call works on, if one is next.
AtConstraintCall == pc \in {"rows", "columns", "boxes"}

CurrentIndices ==
  IF pc = "rows" THEN row_indices(group)
  ELSE IF pc = "columns" THEN column_indices(group)
  ELSE box_indices(group)

\* The clues of the input repeat no digit within a group.
CluesDistinct ==
  /\ InBoardLayout
  /\ \A indices \in Groups : \A j, k \in 1..9 :
       (j < k /\ is_clue_char(ClueChar(indices[j])))
         => ClueChar(indices[j]) # ClueChar(indices[k])

Terminated == pc \in {"done", "unwrap_panic", "panic"}

----------------------------------------------------------------------------
(* C1: from the board parsed from BOARD, solve ends with all 81 cells      *)
(* fixed to the digits of the expected solved grid, in row-major order,    *)
(* and without the stall notice.                                           *)
C1_EndToEnd ==
  (input = BOARD /\ pc = "done")
    => /\ \A idx \in Indices : board[idx] = Value(SolvedDigits[idx + 1])
       /\ notice = FALSE

C1_Witness ==
  /\ input = BOARD
  /\ pc = "done"
  /\ step_count = 6
  /\ finished(board)

(* C2: when solve has returned, every group whose nine cells are all       *)
(* fixed holds a permutation of 1..9.                                      *)
C2_GroupConsistency ==
  pc = "done"
    => \A indices \in Groups :
         GroupFixed(board, indices) => GroupDigits(board, indices) = 1..9

(* C3: a cell is never left fixed to a digit that a fixed cell of the same *)
(* group holds unless the run ended in the contradiction outcome, which of *)
(* this program is the failed assertion of eliminate; stated for inputs    *)
(* whose clues repeat no digit within a group, so that every repetition is *)
(* one that propagation produced.                                          *)
C3_ContradictionReported ==
  (CluesDistinct /\ board # NoBoard /\ \E indices \in Groups : Repeats(board, indices))
    => pc = "panic"

(* C4: every step of the program, and every eliminate on a cell of the     *)
(* group a solve_constraint call is about to work on, leaves each cell's   *)
(* set of possible digits a subset of what it was.                         *)
C4_Monotonic ==
  [][/\ \A idx \in DOMAIN board :
          \/ board'[idx] = board[idx]
          \/ Possible(board'[idx]) \subseteq Possible(board[idx])
     /\ AtConstraintCall
          => \A k \in 1..9 :
               LET cell == board[CurrentIndices[k]]
                   before == Possible(cell)
               IN \A d \in 1..9 :
                    ~eliminate_panics(cell, d)
                      => \/ eliminate(cell, d) = cell
                         \/ Possible(eliminate(cell, d)) \subseteq before]_vars

C4_Witness ==
  /\ pc = "done"
  /\ InBoardLayout
  /\ \E idx \in Indices :
       /\ ~is_clue_char(ClueChar(idx))
       /\ Cardinality(Possible(board[idx])) \in 2..8

(* C5: a Value cell stays the same Value cell in every later state, also   *)
(* under eliminate of its own digit, and when solve has returned every     *)
(* clue of the input is at its index.                                      *)
C5_FixedTerminal ==
  [][/\ \A idx \in DOMAIN board :
          board[idx].tag = "Value" => board'[idx] = board[idx]
     /\ AtConstraintCall
          => \A k \in 1..9 : \A d \in 1..9 :
               LET cell == board[CurrentIndices[k]]
               IN cell.tag = "Value" => eliminate(cell, d) = cell
     /\ (pc' = "done" /\ InBoardLayout)
          => \A idx \in Indices :
               is_clue_char(ClueChar(idx))
                 => board'[idx] = Value(parse(ClueChar(idx)))]_vars

C5_Witness ==
  /\ pc = "done"
  /\ InBoardLayout
  /\ \E idx, other \in Indices :
       /\ is_clue_char(ClueChar(idx))
       /\ ~is_clue_char(ClueChar(other))
       /\ board[other].tag = "Value"

(* C6: every Possibly cell of the board holds between 2 and 9 pairwise     *)
(* distinct digits of 1..9.                                                *)
C6_WellFormed ==
  \A idx \in DOMAIN board :
    board[idx].tag = "Possibly"
      => LET values == board[idx].values
         IN /\ Len(values) \in 2..9
            /\ \A k \in 1..Len(values) : values[k] \in 1..9
            /\ Cardinality({values[k] : k \in 1..Len(values)}) = Len(values)

C6_Witness ==
  /\ pc \in {"rows", "columns", "boxes"}
  /\ InBoardLayout
  /\ \E idx, other \in Indices :
       /\ board[idx].tag = "Possibly"
       /\ Len(board[idx].values) = 2
       /\ ~is_clue_char(ClueChar(other))
       /\ board[other].tag = "Value"

\* The place of a control point within one round of the loop of solve.
RoundPlace ==
  IF pc = "solve" THEN 0
  ELSE IF pc = "rows" THEN 1 + group
  ELSE IF pc = "columns" THEN 10 + group
  ELSE IF pc = "boxes" THEN 19 + group
  ELSE 28

\* What solve has left to do at most: 29 control points for each of the
\* rounds not yet counted, less those passed in the current round; nothing
\* once it has returned or panicked.
Remaining ==
  IF pc \in {"solve", "rows", "columns", "boxes", "count"}
  THEN (82 - step_count) * 29 - RoundPlace
  ELSE 0

(* C7: solve terminates for every parsed board: every step of solve makes  *)
(* the natural number Remaining smaller.  It never counts more than 82     *)
(* steps, it begins a step only when some cell is not fixed and fewer than *)
(* 82 steps are counted, and it has returned once 82 are counted.          *)
C7_BoundedTermination ==
  [][/\ step_count' <= 82
     /\ (pc' = "rows" /\ group' = 0 /\ pc # "rows")
          => (~finished(board') /\ step_count' <= 81)
     /\ step_count' = 82 => pc' = "done"
     /\ pc # "try_from" => (Remaining' < Remaining /\ Remaining' >= 0)]_vars

C7_Witness ==
  /\ pc = "done"
  /\ step_count = 82

(* C8: when solve has returned, the stall notice was emitted exactly if    *)
(* some cell is not fixed; the notice is emitted nowhere else.             *)
C8_OutcomeExact ==
  /\ pc = "done" => (notice <=> ~finished(board))
  /\ notice => pc = "done"

C8_Witness ==
  /\ pc = "done"
  /\ notice
  /\ InBoardLayout
  /\ \E idx, other \in Indices :
       /\ board[idx].tag = "Possibly"
       /\ ~is_clue_char(ClueChar(other))
       /\ board[other].tag = "Value"

\* The input of 81 placeholders, in the layout of BOARD.
EmptyInput == Framed(EmptyDigits)

(* C9: on the input of 81 placeholders every cell is Possibly(1..9) from   *)
(* construction on; solve comes nearer to its return with every step, and  *)
(* it returns with the stall notice, 82 steps counted, never without the   *)
(* notice.                                                                 *)
C9_StallScenario ==
  [][(input = EmptyInput)
       => /\ board' = new
          /\ pc' # "panic"
          /\ pc # "try_from" => Remaining' < Remaining
          /\ pc' = "done" => (notice' /\ step_count' = 82)]_vars

C9_Witness ==
  /\ input = EmptyInput
  /\ pc = "done"
  /\ notice
  /\ board = new

\* The number of characters of text that are not whitespace.
NonWhitespace(text) ==
  Cardinality({k \in 1..Len(text) : ~is_whitespace(text[k])})

\* Position k of text is not a line break, and its line has a character
\* that is not whitespace at or before k and one at or after k.
Kept(text, k) ==
  /\ text[k] # "\n"
  /\ \/ ~is_whitespace(text[k])
     \/ /\ \E j \in 1..k :
             /\ ~is_whitespace(text[j])
             /\ \A i \in j..k : text[i] # "\n"
        /\ \E j \in k..Len(text) :
             /\ ~is_whitespace(text[j])
             /\ \A i \in k..j : text[i] # "\n"

\* The bytes of the kept characters.
KeptBytes(text) ==
  Cardinality({k \in 1..Len(text) : Kept(text, k)})
    + Cardinality({k \in 1..Len(text) : Kept(text, k) /\ len_utf8(text[k]) = 2})

JustParsed == pc = "solve" /\ step_count = 0

(* C11: the text that Display writes for a board just constructed (81      *)
(* digits, nine to a line, "0" for a cell without value) is accepted by    *)
(* try_from and gives the same board: the same Value cells with the same   *)
(* digits, Possibly(1..9) everywhere else.                                 *)
C11_RoundTrip ==
  JustParsed
    => /\ Len(fmt(board)) = 89
       /\ try_from(fmt(board)).ok
       /\ \A idx \in Indices :
            /\ try_from(fmt(board)).board[idx] = board[idx]
            /\ board[idx].tag = "Possibly" => board[idx] = Possibly(all)

C11_Witness ==
  /\ JustParsed
  /\ try_from(fmt(board)).ok
  /\ \E idx, other \in Indices :
       /\ board[idx].tag = "Value"
       /\ board[other].tag = "Possibly"
       /\ fmt(board)[idx + 1 + (idx \div 9)] = DigitChars[board[idx].value]
       /\ fmt(board)[other + 1 + (other \div 9)] = "0"

\* The group of the solve_constraint call that has just returned, when the
\* loop it belongs to has not ended.
AfterConstraintCall == AtConstraintCall /\ group >= 1

PreviousIndices ==
  IF pc = "rows" THEN row_indices(group - 1)
  ELSE IF pc = "columns" THEN column_indices(group - 1)
  ELSE box_indices(group - 1)

(* C12: a solve_constraint call removes from the cells of its group        *)
(* nothing but digits that were fixed in the group when it began; a cell   *)
(* that keeps a digit outside that snapshot ends with exactly its digits   *)
(* outside the snapshot, so no cell that is still Possibly holds a         *)
(* snapshot digit; cells outside the group are unchanged.                  *)
C12_SinglePass ==
  [][AtConstraintCall
       => LET indices == CurrentIndices
              snapshot == GroupDigits(board, indices)
          IN /\ \A k \in 1..9 :
                  LET before == Possible(board[indices[k]])
                      after == Possible(board'[indices[k]])
                  IN /\ after \subseteq before
                     /\ (before \ after) \subseteq snapshot
                     /\ (before \ snapshot) # {} => after = before \ snapshot
                     /\ board'[indices[k]].tag = "Possibly"
                          => after \cap snapshot = {}
             /\ \A idx \in Indices \ {indices[k] : k \in 1..9} :
                  board'[idx] = board[idx]]_vars

\* A cell was fixed by the call that has just returned (its digit was not
\* in the snapshot: a Possibly cell of the group still holds it).
C12_Witness ==
  /\ AfterConstraintCall
  /\ \E j, k \in 1..9 :
       /\ board[PreviousIndices[j]].tag = "Value"
       /\ board[PreviousIndices[k]].tag = "Possibly"
       /\ board[PreviousIndices[j]].value \in Possible(board[PreviousIndices[k]])

(* C13: eliminate(d) on a Possibly cell of digits S leaves the cell as it  *)
(* is when d is not in S, leaves Possibly of S without d when two or more  *)
(* digits remain, and gives Value(w) when w alone remains; applied to a    *)
(* cell of the board it changes no other cell.  Checked for every cell of  *)
(* the group a solve_constraint call is about to work on and every digit.  *)
C13_Eliminate ==
  AtConstraintCall
    => \A k \in 1..9 :
         LET idx == CurrentIndices[k]
             cell == board[idx]
             S == Possible(cell)
         IN cell.tag = "Possibly"
              => \A d \in 1..9 :
                   LET result == eliminate(cell, d)
                   IN /\ ~eliminate_panics(cell, d)
                      /\ d \notin S => result = cell
                      /\ (d \in S /\ Cardinality(S) >= 3)
                           => /\ result.tag = "Possibly"
                              /\ Possible(result) = S \ {d}
                              /\ Len(result.values) = Cardinality(S) - 1
                      /\ (d \in S /\ Cardinality(S) = 2)
                           => \E w \in S \ {d} : result = Value(w)
                      /\ (k = 9)
                           => eliminate_group(board, CurrentIndices, d, 9).board
                                = [board EXCEPT ![idx] = result]

\* The call about to run promotes a cell: a Possibly cell of two digits
\* shares its group with a Value cell holding one of them.
C13_Witness ==
  /\ AtConstraintCall
  /\ \E j, k \in 1..9 :
       /\ board[CurrentIndices[k]].tag = "Possibly"
       /\ Len(board[CurrentIndices[k]].values) = 2
       /\ board[CurrentIndices[j]].tag = "Value"
       /\ board[CurrentIndices[j]].value \in Possible(board[CurrentIndices[k]])
       /\ eliminate(board[CurrentIndices[k]], board[CurrentIndices[j]].value).tag
            = "Value"

\* The number of solve_constraint calls that the current step has made.
CallsMade ==
  IF pc = "rows" THEN group
  ELSE IF pc = "columns" THEN 9 + group
  ELSE IF pc = "boxes" THEN 18 + group
  ELSE IF pc = "count" THEN 27
  ELSE 0

\* The cells of the current group that are Value cells but no clues.
PromotedInGroup ==
  {k \in 1..9 : /\ board[CurrentIndices[k]].tag = "Value"
                /\ ~is_clue_char(ClueChar(CurrentIndices[k]))}

(* C14: a step begins at row group 0 and every solve_constraint call is    *)
(* followed by the call for the next group of the order rows 0..8, columns *)
(* 0..8, boxes 0..8, the step being counted after the 27th call and not    *)
(* before; the call made is the one for that group.  In the first step a   *)
(* cell of a column or box group that is a Value cell without being a clue *)
(* was fixed earlier in the same step, and after the call for that group   *)
(* no Possibly cell of the group holds its digit.                          *)
C14_StepOrder ==
  [][/\ (pc = "solve" /\ pc' # "done")
          => (pc' = "rows" /\ group' = 0 /\ CallsMade' = 0)
     /\ AtConstraintCall
          => /\ pc' # "panic"
             /\ CallsMade' = CallsMade + 1
             /\ pc' = (IF CallsMade + 1 < 9 THEN "rows"
                       ELSE IF CallsMade + 1 < 18 THEN "columns"
                       ELSE IF CallsMade + 1 < 27 THEN "boxes"
                       ELSE "count")
             /\ board' = solve_constraint(board, CurrentIndices).board
     /\ pc' = "count" => (pc = "boxes" /\ group = 8)
     /\ (pc' = "columns" /\ pc # "columns") => (pc = "rows" /\ group = 8)
     /\ (pc' = "boxes" /\ pc # "boxes") => (pc = "columns" /\ group = 8)
     /\ (pc \in {"columns", "boxes"} /\ step_count = 0 /\ InBoardLayout)
          => \A j \in PromotedInGroup : \A k \in 1..9 :
               board'[CurrentIndices[k]].tag = "Possibly"
                 => board[CurrentIndices[j]].value
                      \notin Possible(board'[CurrentIndices[k]])]_vars

\* In the first step a column call is about to run on a group holding a
\* cell that the row pass fixed and a Possibly cell that still holds its
\* digit.
C14_Witness ==
  /\ pc = "columns"
  /\ step_count = 0
  /\ InBoardLayout
  /\ \E j \in PromotedInGroup : \E k \in 1..9 :
       /\ board[CurrentIndices[k]].tag = "Possibly"
       /\ board[CurrentIndices[j]].value \in Possible(board[CurrentIndices[k]])

\* The set of the indices of a group.
IndexSet(indices) == {indices[k] : k \in DOMAIN indices}

RowSets == {IndexSet(row_indices(g)) : g \in 0..8}

ColumnSets == {IndexSet(column_indices(g)) : g \in 0..8}

BoxSets == {IndexSet(box_indices(g)) : g \in 0..8}

\* The aligned 3x3 block of block row i and block column j.
Block(i, j) ==
  {idx \in Indices : /\ (idx \div 9) \div 3 = i
                     /\ (idx % 9) \div 3 = j}

\* sets are nine sets, pairwise disjoint, that cover the 81 indices.
Partitions(sets) ==
  /\ Cardinality(sets) = 9
  /\ \A a, b \in sets : a # b => a \cap b = {}
  /\ UNION sets = Indices

\* The row groups, the column groups and the box groups each partition
\* the indices, and the box groups are the nine aligned blocks.
GroupsPartition ==
  /\ Partitions(RowSets)
  /\ Partitions(ColumnSets)
  /\ Partitions(BoxSets)
  /\ BoxSets = {Block(i, j) : i \in 0..2, j \in 0..2}

(* C15: the group a solve_constraint call is made for is a list of nine    *)
(* pairwise distinct indices of 0..80: row group r is row r, column group  *)
(* c is column c, and a box group is one aligned 3x3 block; the nine row   *)
(* groups, the nine column groups and the nine box groups each partition   *)
(* the 81 indices.                                                         *)
C15_GroupEnumeration ==
  AtConstraintCall
    => LET indices == CurrentIndices
       IN /\ DOMAIN indices = 1..9
          /\ \A k \in 1..9 : indices[k] \in Indices
          /\ \A j, k \in 1..9 : j # k => indices[j] # indices[k]
          /\ pc = "rows"
               => IndexSet(indices) = {idx \in Indices : idx \div 9 = group}
          /\ pc = "columns"
               => IndexSet(indices) = {idx \in Indices : idx % 9 = group}
          /\ pc = "boxes"
               => IndexSet(indices) = Block(group % 3, group \div 3)
          /\ GroupsPartition

\* The calls for every box group up to the last have been made.
C15_Witness ==
  /\ pc = "boxes"
  /\ group = 8
  /\ IndexSet(CurrentIndices) = Block(2, 2)
  /\ IndexSet(box_indices(1)) = Block(1, 0)

\* The indices of the Value cells of a board.
FixedCells(b) == {idx \in Indices : b[idx].tag = "Value"}

(* C16: at the head of the loop of solve, with once the board after one    *)
(* more step and twice the board after two: if the step changes no cell,   *)
(* or only fixes no cell, then the step after it changes no cell, nor does *)
(* the one after that.                                                     *)
C16_FixedPointStable ==
  pc = "solve"
    => LET once == step(board).board
           twice == step(once).board
       IN /\ once = board => twice = once
          /\ FixedCells(once) = FixedCells(board)
               => (twice = once /\ step(twice).board = twice)

\* A step that removes digits without fixing a cell, the next changing
\* nothing.
C16_Witness ==
  /\ pc = "solve"
  /\ step_count >= 1
  /\ step(board).board # board
  /\ FixedCells(step(board).board) = FixedCells(board)
  /\ step(step(board).board).board = step(board).board

(* C17: no call of the 82nd step changes a cell; at the loop head before   *)
(* it the board is a fixed point of step; and a board that solve returns   *)
(* with the stall notice has a cell that is not fixed and is a fixed point *)
(* of step.                                                                *)
C17_LimitHarmless ==
  [][/\ (step_count = 81 /\ AtConstraintCall) => board' = board
     /\ (step_count = 81 /\ pc = "solve") => step(board).board = board
     /\ (pc' = "done" /\ notice')
          => /\ ~finished(board')
             /\ ~step(board').panicked
             /\ step(board').board = board']_vars

\* A stalled board on which earlier steps fixed a cell.
C17_Witness ==
  /\ pc = "done"
  /\ notice
  /\ step_count = 82
  /\ InBoardLayout
  /\ step(board).board = board
  /\ \E idx \in FixedCells(board) : ~is_clue_char(ClueChar(idx))

(* C18: the assertion of eliminate never fails, also on inputs whose clues *)
(* repeat a digit within a group: the program is never in the panicked     *)
(* state, no Possibly cell is empty, and the solve_constraint call about   *)
(* to run finds no list empty at the assertion.                            *)
C18_AssertionHolds ==
  /\ pc # "panic"
  /\ \A idx \in DOMAIN board :
       board[idx].tag = "Possibly" => board[idx].values # <<>>
  /\ AtConstraintCall
       => ~solve_constraint(board, CurrentIndices).panicked

\* solve has returned on an input whose clues repeat a digit in a group,
\* after fixing a cell.
C18_Witness ==
  /\ pc = "done"
  /\ InBoardLayout
  /\ ~CluesDistinct
  /\ \E idx \in FixedCells(board) : ~is_clue_char(ClueChar(idx))

\* A complete grid with row 0 = 1..9 that has 9 at (4,7) and 8 at (4,8).
SecondGrid ==
  <<1, 2, 3, 4, 5, 6, 7, 8, 9,
    4, 5, 6, 7, 8, 9, 1, 2, 3,
    7, 8, 9, 1, 2, 3, 4, 5, 6,
    2, 1, 4, 3, 9, 8, 5, 6, 7,
    3, 6, 7, 5, 1, 4, 2, 9, 8,
    5, 9, 8, 2, 6, 7, 3, 1, 4,
    6, 3, 1, 8, 4, 2, 9, 7, 5,
    8, 4, 2, 9, 7, 5, 6, 3, 1,
    9, 7, 5, 6, 3, 1, 8, 4, 2>>

\* Every row, column and box of the grid is a permutation of 1..9.
ValidGrid(grid) ==
  \A indices \in Groups : {grid[indices[k] + 1] : k \in 1..9} = 1..9

\* The complete valid grids the inputs are compared with.
ValidGrids == {grid \in {SolvedDigits, SecondGrid} : ValidGrid(grid)}

\* Every clue of the input is the digit of the grid at its index.
Agrees(grid) ==
  /\ InBoardLayout
  /\ \A idx \in Indices :
       is_clue_char(ClueChar(idx)) => ClueChar(idx) = DigitChars[grid[idx + 1]]

(* C19: when the clues of the input agree with a complete valid grid,      *)
(* every cell of the board may still take the grid's digit at its index in *)
(* every state: a Value cell holds it and a Possibly cell contains it; a   *)
(* board that is fully fixed is the grid.                                  *)
C19_Sound ==
  \A grid \in ValidGrids :
    (pc \notin {"try_from", "unwrap_panic"} /\ Agrees(grid))
      => /\ \A idx \in Indices : grid[idx + 1] \in Possible(board[idx])
         /\ finished(board)
              => \A idx \in Indices : board[idx] = Value(grid[idx + 1])

\* solve has returned on clues that agree with the second grid, with a
\* cell fixed by propagation and a cell still open.
C19_Witness ==
  /\ pc = "done"
  /\ Agrees(SecondGrid)
  /\ SecondGrid \in ValidGrids
  /\ \E idx, other \in Indices :
       /\ ~is_clue_char(ClueChar(idx))
       /\ board[idx] = Value(SecondGrid[idx + 1])
       /\ board[other].tag = "Possibly"
       /\ Len(board[other].values) < 9

====
